---------------------------- MODULE Spec2Model ----------------------------
(***************************************************************************)
(* A model of mmap_grep.py: the FastGrep registry of memory-mapped         *)
(* codebases (load / unload), the line-oriented search over the mapped     *)
(* buffers, and the background worker that consumes the request queue.     *)
(*                                                                         *)
(* Bytes are modelled as one-character strings, a bytes object as a        *)
(* sequence of them.  An mmap object is a heap cell with its own file      *)
(* position (mm.seek / mm.read move it) and an open flag (mm.close clears  *)
(* it).  A thread that is inside search() holds the Codebase object it     *)
(* fetched from the registry, so its list of (path, mmap) pairs is kept    *)
(* in the thread's own state.                                              *)
(***************************************************************************)
EXTENDS Integers, Sequences, FiniteSets, TLC

VARIABLES
    fs,          \* the file system: directory path -> entries in rglob order
    codebases,   \* self.codebases: name -> Codebase, or NoCodebase
    mmaps,       \* the mmap objects: slot -> [path, content, open, pos], or NoMap
    queue,       \* self.queue: the requests waiting to be dequeued
    unfinished,  \* self.queue.unfinished_tasks
    running,     \* self.running
    worker,      \* self.worker: id of the last thread started, 0 for None
    threads,     \* every worker thread started so far: id -> thread state
    fg,          \* the controlling (foreground) thread
    last         \* the last call the controlling thread completed

vars == <<fs, codebases, mmaps, queue, unfinished, running, worker, threads, fg, last>>

---------------------------------------------------------------------------
(* Bounds of the model. *)

\* Longest file content drawn by InitSearch.
MaxLen == 3
\* Largest max_results the search specification asks for.
MaxCap == 2
\* mmap objects that exist at one time.
MaxMaps == 3
\* Requests waiting in the queue.
MaxQueue == 2
\* Worker threads started over a run.
MaxThreads == 2

\* max_results = None (SearchRequest.max_results default).
NoCap == -1

---------------------------------------------------------------------------
(* Bytes, text and the regex library. *)

NL == "\n"

\* bytes.split(b'\n'): the segments between newline bytes, at least one.
RECURSIVE SplitFrom(_, _, _)
SplitFrom(content, i, cur) ==
    IF i > Len(content) THEN <<cur>>
    ELSE IF content[i] = NL THEN <<cur>> \o SplitFrom(content, i + 1, <<>>)
    ELSE SplitFrom(content, i + 1, Append(cur, content[i]))

\* Splitting as bytes.splitlines() does: no empty segment after a final newline.
SplitLines(content) ==
    IF content # <<>> /\ content[Len(content)] = NL
    THEN SplitFrom(SubSeq(content, 1, Len(content) - 1), 1, <<>>)
    ELSE SplitFrom(content, 1, <<>>)

Split(content) == SplitFrom(content, 1, <<>>)

\* re.IGNORECASE on bytes: ASCII letters compare by their lower-case form.
Fold(b) == IF b = "A" THEN "a" ELSE IF b = "B" THEN "b" ELSE b

\* bytes.decode('utf-8', errors='replace'): an invalid byte becomes U+FFFD.
DecodeByte(b) == IF b = "xFF" THEN "uFFFD" ELSE b

Decode(bytes) == [i \in 1..Len(bytes) |-> DecodeByte(bytes[i])]

Whitespace == {" ", NL, "\t"}

\* str.strip(): leading and trailing whitespace removed.
RECURSIVE LStrip(_)
LStrip(s) == IF s # <<>> /\ Head(s) \in Whitespace THEN LStrip(Tail(s)) ELSE s

RECURSIVE RStrip(_)
RStrip(s) ==
    IF s # <<>> /\ s[Len(s)] \in Whitespace THEN RStrip(SubSeq(s, 1, Len(s) - 1)) ELSE s

Strip(s) == RStrip(LStrip(s))

\* \w over the model's characters.
WordChars == {"a", "A", "b", "B", "_"}

\* len(word_re.findall(text)) for \b\w+\b: the maximal runs of word characters.
WordCount(text) ==
    Cardinality({i \in 1..Len(text) :
        text[i] \in WordChars /\ (i = 1 \/ text[i - 1] \notin WordChars)})

\* A pattern string: a literal, or one the regex compiler rejects ("(").
BadPattern == [kind |-> "bad", lit |-> <<>>]
Lit(bytes) == [kind |-> "lit", lit |-> bytes]

\* A pattern the regex compiler rejects with an exception that is not a
\* re.error ("a{4294967296}": OverflowError, the repetition number is too large).
HugePattern == [kind |-> "huge", lit |-> <<>>]

\* re.compile(pattern.encode('utf-8'), flags) raises re.error.
CompileFails(pattern) == pattern.kind = "bad"

\* re.compile raises something "except re.error" does not catch.
CompileRaises(pattern) == pattern.kind = "huge"

\* Whether the compiled pattern matches line at 0-based offset p.
MatchesAt(line, lit, icase, p) ==
    /\ p + Len(lit) <= Len(line)
    /\ \A j \in 1..Len(lit) :
          IF icase THEN Fold(line[p + j]) = Fold(lit[j]) ELSE line[p + j] = lit[j]

\* The offset of the rightmost match instead of the leftmost.
PatternSearchLast(line, lit, icase) ==
    LET hits == {p \in 0..Len(line) : MatchesAt(line, lit, icase, p)}
    IN  IF hits = {} THEN -1 ELSE CHOOSE p \in hits : \A q \in hits : p >= q

\* pattern.search(line): match.start() of the leftmost match, -1 for None.
PatternSearch(line, lit, icase) ==
    LET hits == {p \in 0..Len(line) : MatchesAt(line, lit, icase, p)}
    IN  IF hits = {} THEN -1 ELSE CHOOSE p \in hits : \A q \in hits : p <= q


---------------------------------------------------------------------------
(* The file system. *)

\* One directory entry as Path.rglob('*') yields it.
File(path, suffix, content, mtime) ==
    [path |-> path, suffix |-> suffix, isfile |-> TRUE, content |-> content, mtime |-> mtime]

SubDir(path) ==
    [path |-> path, suffix |-> "", isfile |-> FALSE, content |-> <<>>, mtime |-> 0]

\* The tree the registry and worker specifications run on.  dA holds two
\* loadable files, an image and a sub-directory; dB one loadable file; dE
\* an empty file and an image, nothing that can be mapped.
FixedFS ==
    [dA |-> << File("dA/f1.py", ".py", <<"a", "a", NL, "b">>, 1),
               SubDir("dA/sub"),
               File("dA/f2.py", ".py", <<" ", "A", "xFF", NL, "a", NL>>, 3),
               File("dA/pic.png", ".png", <<"a">>, 4) >>,
     dB |-> << File("dB/g.py", ".py", <<"a", NL, "A">>, 5) >>,
     dE |-> << File("dE/empty.py", ".py", <<>>, 6),
               File("dE/pic.PNG", ".PNG", <<"a">>, 7) >>]

\* os.path.isdir(path)
IsDir(path) == path \in DOMAIN fs

\* str.lower() over the suffixes of the model.
Lower(suffix) == IF suffix = ".PNG" THEN ".png" ELSE IF suffix = ".PY" THEN ".py" ELSE suffix

\* The suffixes load() always skips.
BinaryExts ==
    {".png", ".jpg", ".jpeg", ".gif", ".ico", ".pdf", ".zip", ".tar", ".gz",
     ".exe", ".dll", ".so", ".dylib"}

\* exts = None: the default allow-list.
NoExts == <<"None">>

DefaultExts ==
    <<".py", ".txt", ".md", ".js", ".java", ".c", ".cpp", ".h", ".go", ".rs", ".ts",
      ".jsx", ".tsx", ".html", ".sh", ".sample", ".yml", ".yaml", ".json", ".xml">>

Range(seq) == {seq[i] : i \in 1..Len(seq)}

\* The regular files under the root whose suffix is not a binary one.
AllFiles(path) ==
    LET NotBinary(f) == f.isfile /\ Lower(f.suffix) \notin BinaryExts
    IN  SelectSeq(fs[path], NotBinary)

\* "if exts:" is false for an empty list, which then filters nothing.
FilterByExts(files, exts) ==
    LET allow == IF exts = NoExts THEN DefaultExts ELSE exts
        Allowed(f) == f.suffix \in Range(allow)
    IN  IF allow # <<>> THEN SelectSeq(files, Allowed) ELSE files

Candidates(path, exts) == FilterByExts(AllFiles(path), exts)

---------------------------------------------------------------------------
(* The registry: load and unload. *)

NoCodebase == [name |-> "", path |-> "", files |-> <<>>, stats |-> <<>>]

\* The step of the per-file try block that raises, "none" when none does.
FailSteps == {"none", "stat", "open", "map", "read", "count"}

\* A new mmap object over the file's bytes, position 0.
NewMap(f) == [path |-> f.path, content |-> f.content, open |-> TRUE, pos |-> 0]

\* A slot that holds no mmap object.
NoMap == [path |-> "", content |-> <<>>, open |-> FALSE, pos |-> 0]

FreeSlots(maps) == {m \in DOMAIN maps : maps[m] = NoMap}

\* The stats[fpath] dictionary.
MetaOf(f, content) ==
    [path |-> f.path, size |-> Len(f.content), ext |-> f.suffix, mtime |-> f.mtime,
     lines |-> Len(Split(content)), words |-> WordCount(Decode(content))]

\* One iteration of "for f in all_files": acc holds files, stats and the
\* heap (fits is false once the heap has no slot left for a new mmap).
LoadOne(f, step, acc) ==
    IF step \in {"stat", "open"} THEN acc
    ELSE IF Len(f.content) = 0 THEN acc
    ELSE IF step = "map" THEN acc
    ELSE IF FreeSlots(acc.maps) = {} THEN [acc EXCEPT !.fits = FALSE]
    ELSE LET mm      == CHOOSE m \in FreeSlots(acc.maps) : \A k \in FreeSlots(acc.maps) : m <= k
             entered == [acc EXCEPT !.files = Append(@, [path |-> f.path, mm |-> mm]),
                                    !.maps[mm] = NewMap(f)]
             readAll == [entered EXCEPT !.maps[mm].pos = Len(f.content)]
         IN  IF step = "read" THEN entered
             ELSE IF step = "count" THEN readAll
             ELSE [readAll EXCEPT !.stats = Append(@, MetaOf(f, f.content))]

RECURSIVE LoadEach(_, _, _, _)
LoadEach(cands, fails, i, acc) ==
    IF i > Len(cands) THEN acc
    ELSE LoadEach(cands, fails, i + 1, LoadOne(cands[i], fails[i], acc))

\* The emptiness check left out: a load that mapped nothing registers.
NothingLoadedUnchecked(files) == FALSE

\* "if not files": nothing was mapped.
NothingLoaded(files) == files = <<>>

NoReq == [codebase |-> "", pattern |-> BadPattern, case_sensitive |-> TRUE, max_results |-> NoCap]

\* stats() and file_info() returning None.
None == [kind |-> "None"]

\* What the controlling thread's call handed back: whether it returned
\* rather than raised and what it returned (ok, results, ret), the message it
\* printed (report), the arguments it had (name, path, exts, req), the files
\* dictionary of the Codebase it worked on and, for load, each candidate file
\* with the step of its processing that raised (fails).
Call(op, name, ok, report) ==
    [tick |-> 1 - last.tick, op |-> op, name |-> name, path |-> "", exts |-> <<>>,
     req |-> NoReq, ok |-> ok, report |-> report, results |-> <<>>, ret |-> None,
     files |-> <<>>, fails |-> <<>>]

\* The call the controlling thread is inside of and has not returned from.
Entered(op, name) == Call(op, name, FALSE, "in progress")

Idle == fg.pc = "idle"

\* The record of a load call: its arguments and, per candidate file, the
\* step that raised.
Loaded(name, path, exts, ok, report, cands, fails) ==
    [Call("load", name, ok, report) EXCEPT
        !.path = path, !.exts = exts,
        !.fails = [i \in 1..Len(cands) |-> [path |-> cands[i].path, step |-> fails[i]]]]

Load(name, path, exts, steps) ==
    /\ Idle
    /\ IF ~IsDir(path)
       THEN /\ last' = Loaded(name, path, exts, FALSE, "Bad path", <<>>, <<>>)
            /\ UNCHANGED <<codebases, mmaps>>
       ELSE \E cands \in {Candidates(path, exts)} :
            \E fails \in [1..Len(cands) -> steps] :
            \E acc \in {LoadEach(cands, fails, 1,
                          [files |-> <<>>, stats |-> <<>>, maps |-> mmaps, fits |-> TRUE])} :
                /\ acc.fits
                /\ IF NothingLoaded(acc.files)
                   THEN /\ last' = Loaded(name, path, exts, FALSE, "No files found", cands, fails)
                        /\ UNCHANGED <<codebases, mmaps>>
                   ELSE /\ codebases' = [codebases EXCEPT ![name] =
                              [name |-> name, path |-> path, files |-> acc.files,
                               stats |-> acc.stats]]
                        /\ mmaps' = acc.maps
                        /\ last' = Loaded(name, path, exts, TRUE, "Loaded", cands, fails)
    /\ UNCHANGED <<fs, queue, unfinished, running, worker, threads, fg>>

\* The mmap objects of a Codebase's files dictionary.
MapsOf(files) == {files[i].mm : i \in 1..Len(files)}

\* The mmap objects something still refers to: the registry's codebases and
\* the Codebase a thread inside search() holds.
Refs(cbs, fgv, ths) ==
    UNION {MapsOf(cbs[n].files) : n \in DOMAIN cbs}
    \cup MapsOf(fgv.ctx.files)
    \cup UNION {MapsOf(ths[t].ctx.files) : t \in DOMAIN ths}

Referenced == Refs(codebases, fg, threads)

\* A closed mmap object that nothing refers to is gone: its slot is free.
Swept(maps, refs) ==
    [m \in DOMAIN maps |-> IF maps[m].open \/ m \in refs THEN maps[m] ELSE NoMap]

\* The loop leaves after its first iteration: only one mapping is closed.
CloseFirstOnly(files, maps) ==
    [m \in DOMAIN maps |->
        IF files # <<>> /\ files[1].mm = m THEN [maps[m] EXCEPT !.open = FALSE] ELSE maps[m]]

\* "for mm in cb.files.values(): mm.close()"
CloseAll(files, maps) ==
    [m \in DOMAIN maps |->
        IF \E i \in 1..Len(files) : files[i].mm = m THEN [maps[m] EXCEPT !.open = FALSE]
        ELSE maps[m]]

Unload(name) ==
    /\ Idle
    /\ IF codebases[name] # NoCodebase
       THEN /\ codebases' = [codebases EXCEPT ![name] = NoCodebase]
            /\ mmaps' = Swept(CloseAll(codebases[name].files, mmaps),
                              Refs([codebases EXCEPT ![name] = NoCodebase], fg, threads))
            /\ last' = [Call("unload", name, TRUE, "Unloaded")
                           EXCEPT !.files = codebases[name].files]
       ELSE /\ last' = Call("unload", name, TRUE, "")
            /\ UNCHANGED <<codebases, mmaps>>
    /\ UNCHANGED <<fs, queue, unfinished, running, worker, threads, fg>>

\* The runtime finalizes an mmap object nothing refers to any more (load
\* dropped the Codebase it replaced); when it does so is up to the runtime.
Finalize(m) ==
    /\ mmaps[m].open
    /\ m \notin Referenced
    /\ mmaps' = [mmaps EXCEPT ![m] = NoMap]
    /\ UNCHANGED <<fs, codebases, queue, unfinished, running, worker, threads, fg, last>>

---------------------------------------------------------------------------
(* The read-only queries: stats and file_info. *)

\* sum(s[field] for s in cb.stats.values())
RECURSIVE SumOf(_, _)
SumOf(stats, field) ==
    IF stats = <<>> THEN 0 ELSE Head(stats)[field] + SumOf(Tail(stats), field)

\* The total left out: the entry is overwritten, "d[key] = n".
SetTo(d, key, n) ==
    [k \in DOMAIN d \cup {key} |-> IF k = key THEN n ELSE d[k]]

\* "d[key] = d.get(key, 0) + n"
AddTo(d, key, n) ==
    [k \in DOMAIN d \cup {key} |->
        (IF k \in DOMAIN d THEN d[k] ELSE 0) + (IF k = key THEN n ELSE 0)]

\* An empty dictionary.
EmptyDict == [k \in {} |-> 0]

\* "for s in cb.stats.values(): d[s['ext']] = d.get(s['ext'], 0) + s[field]"
RECURSIVE ByExt(_, _, _)
ByExt(stats, field, d) ==
    IF stats = <<>> THEN d
    ELSE ByExt(Tail(stats), field, AddTo(d, Head(stats).ext, Head(stats)[field]))

\* Counter(s['ext'] for s in cb.stats.values())
RECURSIVE Types(_, _)
Types(stats, d) ==
    IF stats = <<>> THEN d ELSE Types(Tail(stats), AddTo(d, Head(stats).ext, 1))

\* The FileInfo of one stats entry.
FileInfoOf(s) ==
    [file |-> s.path, size |-> s.size, ext |-> s.ext, mtime |-> s.mtime,
     lines |-> s.lines, words |-> s.words]

\* sorted(items, key=..., reverse=True), which is stable: x goes behind the
\* entries whose key is not smaller.
InsertDesc(sorted, x, key) ==
    LET k == Cardinality({i \in 1..Len(sorted) : sorted[i][key] >= x[key]})
    IN  SubSeq(sorted, 1, k) \o <<x>> \o SubSeq(sorted, k + 1, Len(sorted))

RECURSIVE SortDesc(_, _, _)
SortDesc(items, key, sorted) ==
    IF items = <<>> THEN sorted
    ELSE SortDesc(Tail(items), key, InsertDesc(sorted, Head(items), key))

\* seq[:n]
Take(seq, n) == SubSeq(seq, 1, IF Len(seq) < n THEN Len(seq) ELSE n)

\* word_re.findall(text): the maximal runs of word characters, in order.
RECURSIVE FindWords(_, _, _)
FindWords(text, i, cur) ==
    LET done == IF cur = <<>> THEN <<>> ELSE <<cur>>
    IN  IF i > Len(text) THEN done
        ELSE IF text[i] \in WordChars THEN FindWords(text, i + 1, Append(cur, text[i]))
        ELSE done \o FindWords(text, i + 1, <<>>)

\* str.lower()
LowerText(text) == [i \in 1..Len(text) |-> Fold(text[i])]

\* word_count.update(...) for one word: a Counter keeps insertion order.
CountWord(counts, w) ==
    IF \E i \in 1..Len(counts) : counts[i].word = w
    THEN [i \in 1..Len(counts) |->
            IF counts[i].word = w THEN [counts[i] EXCEPT !.n = @ + 1] ELSE counts[i]]
    ELSE Append(counts, [word |-> w, n |-> 1])

RECURSIVE CountWords(_, _)
CountWords(words, counts) ==
    IF words = <<>> THEN counts
    ELSE CountWords(Tail(words),
                    IF Len(Head(words)) > 2 THEN CountWord(counts, Head(words)) ELSE counts)

\* The "Common words" loop over cb.files from entry i on: every mmap is
\* rewound and read to its end; a closed one raises ValueError.
RECURSIVE WordPass(_, _, _, _)
WordPass(files, i, maps, counts) ==
    IF i > Len(files) THEN [raised |-> FALSE, maps |-> maps, counts |-> counts]
    ELSE LET m == files[i].mm
         IN  IF ~maps[m].open THEN [raised |-> TRUE, maps |-> maps, counts |-> counts]
             ELSE WordPass(files, i + 1, [maps EXCEPT ![m].pos = Len(maps[m].content)],
                           CountWords(FindWords(LowerText(Decode(maps[m].content)), 1, <<>>),
                                      counts))

\* The Stats object stats() returns.
StatsOf(cb, counts) ==
    [files        |-> Len(cb.files),
     size         |-> SumOf(cb.stats, "size"),
     lines        |-> SumOf(cb.stats, "lines"),
     words        |-> SumOf(cb.stats, "words"),
     types        |-> Types(cb.stats, EmptyDict),
     size_by_ext  |-> ByExt(cb.stats, "size", EmptyDict),
     lines_by_ext |-> ByExt(cb.stats, "lines", EmptyDict),
     biggest      |-> Take(SortDesc([i \in 1..Len(cb.stats) |-> FileInfoOf(cb.stats[i])],
                                    "size", <<>>), 10),
     common_words |-> Take(SortDesc(counts, "n", <<>>), 20)]

Stats(name) ==
    /\ Idle
    /\ IF codebases[name] = NoCodebase
       THEN /\ last' = Call("stats", name, TRUE, "No codebase")
            /\ UNCHANGED mmaps
       ELSE \E pass \in {WordPass(codebases[name].files, 1, mmaps, <<>>)} :
               /\ mmaps' = pass.maps
               /\ last' = IF pass.raised THEN Call("stats", name, FALSE, "ValueError")
                          ELSE [Call("stats", name, TRUE, "") EXCEPT
                                   !.ret = StatsOf(codebases[name], pass.counts)]
    /\ UNCHANGED <<fs, codebases, queue, unfinished, running, worker, threads, fg>>

\* "filepath in cb.stats"
HasStats(cb, filepath) == \E i \in 1..Len(cb.stats) : cb.stats[i].path = filepath

\* The lookup that takes the entry out: "cb.stats.pop(filepath)".
FileInfoPop(name, filepath) ==
    /\ Idle
    /\ codebases[name] # NoCodebase
    /\ HasStats(codebases[name], filepath)
    /\ LET Other(s) == s.path # filepath
       IN  codebases' = [codebases EXCEPT ![name].stats = SelectSeq(@, Other)]
    /\ last' = [Call("file_info", name, TRUE, "") EXCEPT !.path = filepath]
    /\ UNCHANGED <<fs, mmaps, queue, unfinished, running, worker, threads, fg>>

FileInfo(name, filepath) ==
    /\ Idle
    /\ last' = IF codebases[name] = NoCodebase
               THEN [Call("file_info", name, TRUE, "No codebase") EXCEPT !.path = filepath]
               ELSE IF ~HasStats(codebases[name], filepath)
               THEN [Call("file_info", name, TRUE, "File not found") EXCEPT !.path = filepath]
               ELSE [Call("file_info", name, TRUE, "") EXCEPT
                        !.path = filepath,
                        !.ret = FileInfoOf(CHOOSE s \in Range(codebases[name].stats) :
                                              s.path = filepath)]
    /\ UNCHANGED <<fs, codebases, mmaps, queue, unfinished, running, worker, threads, fg>>

---------------------------------------------------------------------------
(* search(), one shared-state access per step. *)

NoCtx == [req |-> NoReq, files |-> <<>>, idx |-> 0, results |-> <<>>]

\* "request.max_results and len(results) >= request.max_results"
CapReached(max, n) == max # NoCap /\ max # 0 /\ n >= max

SearchResult(file, line, text, pos) ==
    [file |-> file, line |-> line, text |-> text, pos |-> pos]

\* "for i, line in enumerate(lines, 1)" from line i on: the results so far,
\* and whether the cap made search return.
RECURSIVE ScanLines(_, _, _, _, _)
ScanLines(fpath, lines, i, req, results) ==
    IF i > Len(lines) THEN [results |-> results, stopped |-> FALSE]
    ELSE LET pos == PatternSearch(lines[i], req.pattern.lit, ~req.case_sensitive)
         IN  IF pos = -1 THEN ScanLines(fpath, lines, i + 1, req, results)
             ELSE LET found == Append(results,
                                 SearchResult(fpath, i, Strip(Decode(lines[i])), pos))
                  IN  IF CapReached(req.max_results, Len(found))
                      THEN [results |-> found, stopped |-> TRUE]
                      ELSE ScanLines(fpath, lines, i + 1, req, found)

\* mm.read(): the bytes from the current position to the end.
ReadFrom(mm) == SubSeq(mm.content, mm.pos + 1, Len(mm.content))

\* The entry checks of search(): "none" when the scan starts.
EntryError(req) ==
    IF codebases[req.codebase] = NoCodebase THEN "No codebase"
    ELSE IF CompileFails(req.pattern) THEN "Bad regex"
    ELSE IF CompileRaises(req.pattern) THEN "OverflowError"
    ELSE "none"

EnterCtx(req) == [req |-> req, files |-> codebases[req.codebase].files, idx |-> 1, results |-> <<>>]

\* The rewind left out: the position stays where the last read left it.
SeekNoRewind(ctx) ==
    LET m == ctx.files[ctx.idx].mm
    IN  IF ~mmaps[m].open THEN [kind |-> "raise", maps |-> mmaps, ctx |-> ctx]
        ELSE [kind |-> "next", maps |-> mmaps, ctx |-> ctx]

\* mm.seek(0) on the current file: a closed mmap raises ValueError.
SeekOutcome(ctx) ==
    LET m == ctx.files[ctx.idx].mm
    IN  IF ~mmaps[m].open THEN [kind |-> "raise", maps |-> mmaps, ctx |-> ctx]
        ELSE [kind |-> "next", maps |-> [mmaps EXCEPT ![m].pos = 0], ctx |-> ctx]

\* content = mm.read() and the scan of its lines, which touches no shared state.
\* The lines and the scan are each computed once, as the code computes them.
ReadOutcome(ctx) ==
    LET m    == ctx.files[ctx.idx].mm
        maps == [mmaps EXCEPT ![m].pos = Len(mmaps[m].content)]
    IN  IF ~mmaps[m].open THEN [kind |-> "raise", maps |-> mmaps, ctx |-> ctx]
        ELSE CHOOSE o \in
               {IF scan.stopped \/ ctx.idx = Len(ctx.files)
                THEN [kind |-> "return", maps |-> maps,
                      ctx |-> [ctx EXCEPT !.results = scan.results]]
                ELSE [kind |-> "next", maps |-> maps,
                      ctx |-> [ctx EXCEPT !.results = scan.results, !.idx = @ + 1]] :
                scan \in {ScanLines(ctx.files[ctx.idx].path, lines, 1, ctx.req, ctx.results) :
                            lines \in {Split(ReadFrom(mmaps[m]))}}} : TRUE

\* The foreground caller enters search(request).
Search(req) ==
    /\ Idle
    /\ IF EntryError(req) # "none"
       THEN /\ last' = [Call("search", req.codebase, EntryError(req) # "OverflowError",
                              EntryError(req)) EXCEPT !.req = req]
            /\ UNCHANGED fg
       ELSE /\ fg' = [pc |-> "seek", ctx |-> EnterCtx(req)]
            /\ last' = [Entered("search", req.codebase) EXCEPT !.req = req]
    /\ UNCHANGED <<fs, codebases, mmaps, queue, unfinished, running, worker, threads>>

\* The caller's thread state once search() has returned or raised.
FgIdle == [pc |-> "idle", ctx |-> NoCtx]

FgSeek ==
    /\ fg.pc = "seek"
    /\ LET o == SeekOutcome(fg.ctx)
       IN  IF o.kind = "raise"
           THEN /\ fg' = FgIdle
                /\ mmaps' = Swept(o.maps, Refs(codebases, FgIdle, threads))
                /\ last' = [Call("search", fg.ctx.req.codebase, FALSE, "ValueError")
                                   EXCEPT !.req = fg.ctx.req, !.files = fg.ctx.files]
           ELSE /\ fg' = [fg EXCEPT !.pc = "read"]
                /\ mmaps' = o.maps
                /\ UNCHANGED last
    /\ UNCHANGED <<fs, codebases, queue, unfinished, running, worker, threads>>

FgRead ==
    /\ fg.pc = "read"
    /\ LET o == ReadOutcome(fg.ctx)
       IN  IF o.kind = "next"
           THEN /\ fg' = [pc |-> "seek", ctx |-> o.ctx]
                /\ mmaps' = o.maps
                /\ UNCHANGED last
           ELSE /\ fg' = FgIdle
                /\ mmaps' = Swept(o.maps, Refs(codebases, FgIdle, threads))
                /\ last' = IF o.kind = "raise"
                           THEN [Call("search", fg.ctx.req.codebase, FALSE, "ValueError")
                                   EXCEPT !.req = fg.ctx.req, !.files = fg.ctx.files]
                           ELSE [Call("search", fg.ctx.req.codebase, TRUE, "")
                                   EXCEPT !.req = fg.ctx.req, !.files = fg.ctx.files,
                                          !.results = o.ctx.results]
    /\ UNCHANGED <<fs, codebases, queue, unfinished, running, worker, threads>>

---------------------------------------------------------------------------
(* The request queue and the background worker. *)

AddSearch(req) ==
    /\ Idle
    /\ unfinished < MaxQueue
    /\ queue' = Append(queue, req)
    /\ unfinished' = unfinished + 1
    /\ last' = [Call("add_search", req.codebase, TRUE, "") EXCEPT !.req = req]
    /\ UNCHANGED <<fs, codebases, mmaps, running, worker, threads, fg>>

\* A worker thread that holds no request.  While a thread executes a request,
\* older is the set of threads that were executing an earlier request when it
\* dequeued its own and still are.
Waiting == [pc |-> "check", ctx |-> NoCtx, older |-> {}]

Alive(t) == threads[t].pc # "dead"

InSearch(t) == threads[t].pc \in {"seek", "read"}

StartWorker ==
    /\ Idle
    /\ IF running
       THEN /\ last' = Call("start_worker", "", TRUE, "Worker already running")
            /\ UNCHANGED <<running, worker, threads>>
       ELSE /\ Len(threads) < MaxThreads
            /\ running' = TRUE
            /\ threads' = Append(threads, Waiting)
            /\ worker' = Len(threads) + 1
            /\ last' = Call("start_worker", "", TRUE, "Worker started")
    /\ UNCHANGED <<fs, codebases, mmaps, queue, unfinished, fg>>

\* "self.running = False", then the caller waits in worker.join(timeout=5).
StopWorker ==
    /\ Idle
    /\ running' = FALSE
    /\ IF worker # 0
       THEN /\ fg' = [fg EXCEPT !.pc = "join"]
            /\ last' = Entered("stop_worker", "")
       ELSE /\ last' = Call("stop_worker", "", TRUE, "Worker stopped")
            /\ UNCHANGED fg
    /\ UNCHANGED <<fs, codebases, mmaps, queue, unfinished, worker, threads>>

\* join(timeout=5) returns once the thread has ended, or after 5 s.  The
\* worker's own wait in queue.get lasts 1 s at most, so the 5 s can only run
\* out while the worker is inside a search, which has no time limit.
JoinExpires(t) == InSearch(t)

JoinReturn ==
    /\ fg.pc = "join"
    /\ ~Alive(worker) \/ JoinExpires(worker)
    /\ fg' = [fg EXCEPT !.pc = "idle"]
    /\ last' = Call("stop_worker", "", TRUE, "Worker stopped")
    /\ UNCHANGED <<fs, codebases, mmaps, queue, unfinished, running, worker, threads>>

\* The loop condition taken as true whatever self.running is.
WorkerCheckNoStop(t) ==
    /\ threads[t].pc = "check"
    /\ threads' = [threads EXCEPT ![t].pc = "get"]
    /\ UNCHANGED <<fs, codebases, mmaps, queue, unfinished, running, worker, fg, last>>

\* "while self.running"
WorkerCheck(t) ==
    /\ threads[t].pc = "check"
    /\ threads' = [threads EXCEPT ![t].pc = IF running THEN "get" ELSE "dead"]
    /\ UNCHANGED <<fs, codebases, mmaps, queue, unfinished, running, worker, fg, last>>

\* queue.get(timeout=1): Empty is raised and swallowed when nothing arrives;
\* otherwise the request is taken and search(request) is entered.  A search
\* that returns at its entry checks is over at once; one whose pattern makes
\* re.compile raise lands in the bare "except: continue".
WorkerGet(t) ==
    /\ threads[t].pc = "get"
    /\ IF queue = <<>>
       THEN /\ threads' = [threads EXCEPT ![t].pc = "check"]
            /\ UNCHANGED queue
       ELSE /\ queue' = Tail(queue)
            /\ threads' = [threads EXCEPT ![t] =
                  IF EntryError(Head(queue)) = "OverflowError" THEN Waiting
                  ELSE IF EntryError(Head(queue)) # "none"
                  THEN [pc |-> "done", ctx |-> [NoCtx EXCEPT !.req = Head(queue)],
                        older |-> {u \in DOMAIN threads : InSearch(u)}]
                  ELSE [pc |-> "seek", ctx |-> EnterCtx(Head(queue)),
                        older |-> {u \in DOMAIN threads : InSearch(u)}]]
    /\ UNCHANGED <<fs, codebases, mmaps, unfinished, running, worker, fg, last>>

\* The thread t after its step: an exception out of search() lands in the
\* bare "except: continue".
AfterStep(t, o, pc) ==
    [u \in DOMAIN threads |->
        IF u = t
        THEN IF o.kind = "raise" THEN Waiting
             ELSE IF o.kind = "return" THEN [threads[t] EXCEPT !.pc = "done", !.ctx = o.ctx]
             ELSE [threads[t] EXCEPT !.pc = pc, !.ctx = o.ctx]
        ELSE IF o.kind = "next" THEN threads[u]
        ELSE [threads[u] EXCEPT !.older = @ \ {t}]]

WorkerSeek(t) ==
    /\ threads[t].pc = "seek"
    /\ \E o \in {SeekOutcome(threads[t].ctx)} :
       \E after \in {AfterStep(t, o, "read")} :
          /\ threads' = after
          /\ mmaps' = Swept(o.maps, Refs(codebases, fg, after))
    /\ UNCHANGED <<fs, codebases, queue, unfinished, running, worker, fg, last>>

WorkerRead(t) ==
    /\ threads[t].pc = "read"
    /\ \E o \in {ReadOutcome(threads[t].ctx)} :
       \E after \in {AfterStep(t, o, "seek")} :
          /\ threads' = after
          /\ mmaps' = Swept(o.maps, Refs(codebases, fg, after))
    /\ UNCHANGED <<fs, codebases, queue, unfinished, running, worker, fg, last>>

\* The summary is printed and "self.queue.task_done()" is called.
WorkerDone(t) ==
    /\ threads[t].pc = "done"
    /\ unfinished' = unfinished - 1
    /\ threads' = [threads EXCEPT ![t] = Waiting]
    /\ mmaps' = Swept(mmaps, Refs(codebases, fg, [threads EXCEPT ![t] = Waiting]))
    /\ UNCHANGED <<fs, codebases, queue, running, worker, fg, last>>

---------------------------------------------------------------------------
(* Specifications. *)

Names == {"n1", "n2"}

Paths == {"dA", "dE", "nodir"}


Request(codebase, lit, case_sensitive, max_results) ==
    [codebase |-> codebase, pattern |-> lit, case_sensitive |-> case_sensitive,
     max_results |-> max_results]

NoCall ==
    [tick |-> 0, op |-> "none", name |-> "", path |-> "", exts |-> <<>>, req |-> NoReq,
     ok |-> TRUE, report |-> "", results |-> <<>>, ret |-> None, files |-> <<>>,
     fails |-> <<>>]

InitOn(tree) ==
    /\ fs = tree
    /\ codebases = [n \in Names |-> NoCodebase]
    /\ mmaps = [m \in 1..MaxMaps |-> NoMap]
    /\ queue = <<>>
    /\ unfinished = 0
    /\ running = FALSE
    /\ worker = 0
    /\ threads = <<>>
    /\ fg = [pc |-> "idle", ctx |-> NoCtx]
    /\ last = NoCall

\* The failures the registry specification draws from: none, one before the
\* file is mapped, one after it was entered in files.
RegSteps == {"none", "open", "count"}

\* The registry under one controlling thread: loads (with per-file
\* failures), unloads, and the runtime's finalizer.
InitReg == InitOn(FixedFS)

NextReg ==
    \/ \E n \in Names, p \in Paths : Load(n, p, NoExts, RegSteps)
    \/ \E n \in Names : Unload(n)
    \/ \E m \in DOMAIN mmaps : Finalize(m)

SpecReg == InitReg /\ [][NextReg]_vars

\* The controlling thread and the worker threads side by side: the
\* controlling thread loads a codebase, unloads it, searches it, enqueues
\* requests, starts and stops the worker, while the worker threads run.
Requests ==
    {Request("n1", Lit(<<"a">>), FALSE, NoCap), Request("n1", Lit(<<"a">>), TRUE, 1),
     Request("n1", HugePattern, TRUE, NoCap)}

Init == InitOn(FixedFS)

Next ==
    \/ codebases["n1"] = NoCodebase /\ Load("n1", "dB", NoExts, {"none"})
    \/ Unload("n1")
    \/ \E r \in Requests : Search(r)
    \/ FgSeek
    \/ FgRead
    \/ \E r \in Requests : AddSearch(r)
    \/ StartWorker
    \/ StopWorker
    \/ JoinReturn
    \/ \E t \in DOMAIN threads : WorkerCheck(t)
    \/ \E t \in DOMAIN threads : WorkerGet(t)
    \/ \E t \in DOMAIN threads : WorkerSeek(t)
    \/ \E t \in DOMAIN threads : WorkerRead(t)
    \/ \E t \in DOMAIN threads : WorkerDone(t)

Spec == Init /\ [][Next]_vars

\* One step of worker thread t, whichever its position allows.
WorkerStep(t) ==
    /\ t \in DOMAIN threads
    /\ \/ WorkerCheck(t)
       \/ WorkerGet(t)
       \/ WorkerSeek(t)
       \/ WorkerRead(t)
       \/ WorkerDone(t)

\* Every started thread keeps being scheduled: a daemon thread that can take
\* a step (its queue.get wait is over after 1 s at most) takes it.
Fairness == \A t \in 1..MaxThreads : WF_vars(WorkerStep(t))

\* Starting and stopping the worker around queued requests, the threads
\* being scheduled fairly.
StopRequests == {Request("n1", Lit(<<"a">>), FALSE, NoCap), Request("n1", HugePattern, TRUE, NoCap)}

InitStop == InitOn(FixedFS)

NextStop ==
    \/ codebases["n1"] = NoCodebase /\ Load("n1", "dB", NoExts, {"none"})
    \/ \E r \in StopRequests : AddSearch(r)
    \/ StartWorker
    \/ StopWorker
    \/ JoinReturn
    \/ \E t \in DOMAIN threads : WorkerCheck(t)
    \/ \E t \in DOMAIN threads : WorkerGet(t)
    \/ \E t \in DOMAIN threads : WorkerSeek(t)
    \/ \E t \in DOMAIN threads : WorkerRead(t)
    \/ \E t \in DOMAIN threads : WorkerDone(t)

SpecStop == InitStop /\ [][NextStop]_vars /\ Fairness

\* The whole interface under one controlling thread and no worker: loads
\* with and without an allow-list, unloads, the read-only queries, searches
\* and enqueued requests.  dX holds two Python
\* files, a Ruby file (a suffix the default allow-list lacks), an empty
\* file, an image and a sub-directory.
ApiTree ==
    [dX |-> << File("dX/a.py", ".py", <<"a", "a", "b", NL, "b">>, 1),
               SubDir("dX/sub"),
               File("dX/b.py", ".py", <<"A", "a", "b">>, 2),
               File("dX/c.rb", ".rb", <<"a", NL>>, 3),
               File("dX/e.py", ".py", <<>>, 4),
               File("dX/pic.PNG", ".PNG", <<"a">>, 5) >>]

\* The exts arguments: None, an empty list, and two non-empty lists.
ApiExts == {NoExts, <<>>, <<".py">>, <<".rb", ".PNG">>}

\* The failures this specification draws from: none, or one that leaves the
\* file mapped without metadata.
ApiSteps == {"none", "count"}

ApiFilePaths == {"dX/a.py", "dX/c.rb", "dX/none"}

ApiRequests == {Request("n1", Lit(<<"a">>), FALSE, NoCap), Request("n2", BadPattern, TRUE, NoCap)}

InitApi == InitOn(ApiTree)

NextApi ==
    \/ codebases["n1"] = NoCodebase /\ \E exts \in ApiExts : Load("n1", "dX", exts, ApiSteps)
    \/ \E n \in Names : Unload(n)
    \/ \E n \in Names : Stats(n)
    \/ \E n \in Names, p \in ApiFilePaths : FileInfo(n, p)
    \/ \E r \in ApiRequests : Search(r)
    \/ FgSeek
    \/ FgRead
    \/ \E r \in ApiRequests : AddSearch(r)

SpecApi == InitApi /\ [][NextApi]_vars

\* search() by one caller, on a tree whose first file is any content up to
\* MaxLen bytes and whose second file is fixed.
ContentBytes == {"a", "A", NL}

RECURSIVE Contents(_)
Contents(n) ==
    IF n = 0 THEN {<<>>}
    ELSE Contents(n - 1) \cup {Append(c, b) : c \in Contents(n - 1), b \in ContentBytes}

SearchTree(content) ==
    [dS |-> << File("dS/x.py", ".py", content, 1),
               File("dS/y.py", ".py", <<"A", "a", "a", NL, NL, "a">>, 2) >>]

Patterns == {Lit(<<>>), Lit(<<"a">>), Lit(<<"a", "a">>), BadPattern, HugePattern}

SearchRequests ==
    {Request("n1", p, cs, k) : p \in Patterns, cs \in BOOLEAN, k \in {NoCap} \cup (0..MaxCap)}

InitSearch == \E content \in Contents(MaxLen) : InitOn(SearchTree(content))

NextSearch ==
    \/ codebases["n1"] = NoCodebase /\ Load("n1", "dS", NoExts, {"none"})
    \/ \E r \in SearchRequests : Search(r)
    \/ FgSeek
    \/ FgRead

SpecSearch == InitSearch /\ [][NextSearch]_vars

---------------------------------------------------------------------------
(* The search claims, under SpecSearch. *)

\* The last call was a search() that scanned the codebase and returned.
Scanned == last.op = "search" /\ last.ok /\ last.report = ""

\* The bytes of the file at path, as the tree holds them.
ContentAt(path) ==
    (CHOOSE f \in UNION {Range(fs[d]) : d \in DOMAIN fs} : f.path = path).content

\* The lines of the i-th file of a Codebase's files.
LinesOf(files, i) == Split(ContentAt(files[i].path))

\* Whether the line contains at least one match of the request's pattern.
HasMatch(line, req) ==
    \E p \in 0..Len(line) : MatchesAt(line, req.pattern.lit, ~req.case_sensitive, p)

\* The (file, line) pairs whose line contains at least one match.
MatchingLines(files, req) ==
    UNION {{<<i, j>> : j \in {k \in 1..Len(LinesOf(files, i)) : HasMatch(LinesOf(files, i)[k], req)}} :
           i \in 1..Len(files)}

\* The result list of a search that runs alone: every file scanned whole,
\* in files order, from file i on.
RECURSIVE RunAlone(_, _, _, _)
RunAlone(files, req, i, results) ==
    IF i > Len(files) THEN results
    ELSE LET scan == ScanLines(files[i].path, LinesOf(files, i), 1, req, results)
         IN  IF scan.stopped THEN scan.results ELSE RunAlone(files, req, i + 1, scan.results)

Uncapped(req) == [req EXCEPT !.max_results = NoCap]

Min(a, b) == IF a <= b THEN a ELSE b

\* C1: with max_results = k >= 0 search returns exactly the first min(k, n)
\* entries of the list of n results the same search returns with no cap.
C1_CapPrefix ==
    (Scanned /\ last.req.max_results >= 0) =>
        LET full == RunAlone(last.files, Uncapped(last.req), 1, <<>>)
        IN  last.results = SubSeq(full, 1, Min(last.req.max_results, Len(full)))

\* C2: with no cap and a valid pattern, search returns as many results as
\* there are lines, over all files of the codebase, that contain at least
\* one match: one per such line however many matches it has, none for the
\* other lines.
C2_OnePerMatchingLine ==
    (Scanned /\ last.req.max_results = NoCap) =>
        Len(last.results) = Cardinality(MatchingLines(last.files, last.req))

\* An uncapped search returned over a codebase that has a line with two
\* matches and a line with none.
C2_Witness ==
    /\ Scanned
    /\ last.req.max_results = NoCap
    /\ Len(last.results) >= 2
    /\ \E i \in 1..Len(last.files) : \E j \in 1..Len(LinesOf(last.files, i)) :
          Cardinality({p \in 0..Len(LinesOf(last.files, i)[j]) :
              MatchesAt(LinesOf(last.files, i)[j], last.req.pattern.lit,
                        ~last.req.case_sensitive, p)}) >= 2
    /\ \E i \in 1..Len(last.files) : \E j \in 1..Len(LinesOf(last.files, i)) :
          PatternSearch(LinesOf(last.files, i)[j], last.req.pattern.lit,
                        ~last.req.case_sensitive) = -1

---------------------------------------------------------------------------
(* The concurrency claims, under Spec. *)

\* The search contexts of the threads that are inside search().
InFlight ==
    {fg.ctx : x \in {1} \cap (IF fg.pc \in {"seek", "read"} THEN {1} ELSE {})}
    \cup {threads[t].ctx : t \in {u \in DOMAIN threads : InSearch(u)}}

\* C3: a search that runs interleaved with another search over the same
\* codebase returns exactly the result list it returns when it runs alone.
C3_AsIfAlone ==
    /\ Scanned => last.results = RunAlone(last.files, last.req, 1, <<>>)
    /\ \A t \in DOMAIN threads :
          (threads[t].pc = "done" /\ threads[t].ctx.files # <<>>) =>
              threads[t].ctx.results = RunAlone(threads[t].ctx.files, threads[t].ctx.req, 1, <<>>)

\* C4: no search reads a mapping that unload has closed: the mapping a
\* search in flight is about to seek or read is open.
C4_NoReadOfClosed ==
    \A ctx \in InFlight : mmaps[ctx.files[ctx.idx].mm].open

\* C5: after any sequence of start_worker, stop_worker and add_search calls
\* at most one worker thread is alive.
C5_OneWorker == Cardinality({t \in DOMAIN threads : Alive(t)}) <= 1

---------------------------------------------------------------------------
(* The registry claims, under SpecReg. *)

\* The step just taken completed a call op of the controlling thread.
Completed(op) == last'.tick # last.tick /\ last'.op = op /\ last'.report # "in progress"

FileKeys(cb) == {cb.files[i].path : i \in 1..Len(cb.files)}

StatKeys(cb) == {cb.stats[i].path : i \in 1..Len(cb.stats)}

\* C6: in every reachable state, every registered codebase has the same set
\* of file paths in its buffer mapping (files) as in its metadata (stats).
C6_SameKeys == \A n \in Names : FileKeys(codebases[n]) = StatKeys(codebases[n])

\* C7: every mapping that is still open belongs to a codebase currently in
\* the registry; none is left open by a codebase that left the registry.
C7_NoOrphan ==
    \A m \in DOMAIN mmaps :
        mmaps[m].open => \E n \in Names : m \in MapsOf(codebases[n].files)

\* C8: unload(name) of a loaded codebase closes every mapping that codebase
\* held and removes exactly its entry; every other registry entry, with its
\* metadata, and every other mapping are as they were.
C8_UnloadEffect ==
    [][(Completed("unload") /\ codebases[last'.name] # NoCodebase) =>
          /\ \A m \in MapsOf(codebases[last'.name].files) : ~mmaps'[m].open
          /\ codebases'[last'.name] = NoCodebase
          /\ \A n \in Names \ {last'.name} : codebases'[n] = codebases[n]
          /\ \A m \in DOMAIN mmaps \ MapsOf(codebases[last'.name].files) :
                mmaps'[m] = mmaps[m]]_vars

\* An unload closed two mappings while another codebase stayed registered
\* with its own mapping open.
C8_Witness ==
    /\ last.op = "unload"
    /\ last.report = "Unloaded"
    /\ Len(last.files) >= 2
    /\ \A m \in MapsOf(last.files) : ~mmaps[m].open
    /\ \E n \in Names : /\ codebases[n] # NoCodebase
                        /\ \A m \in MapsOf(codebases[n].files) : mmaps[m].open

\* C9: unload of a name that is not in the registry (a second unload in a
\* row) does not raise, reports an UnknownCodebase error, and leaves the
\* registry and every mapping unchanged.
C9_UnknownReported ==
    [][(Completed("unload") /\ codebases[last'.name] = NoCodebase) =>
          /\ last'.ok
          /\ last'.report = "No codebase"
          /\ UNCHANGED <<codebases, mmaps>>]_vars

\* C10: a load fails when its path is no directory or when it mapped no
\* file; a failed load returns false and leaves the registry and the
\* mappings exactly as they were, and a load that returns true has mapped
\* at least one file.
C10_FailedLoadFrame ==
    [][Completed("load") =>
          /\ ~IsDir(last'.path) => ~last'.ok
          /\ ~last'.ok => UNCHANGED <<codebases, mmaps>>
          /\ last'.ok => codebases'[last'.name].files # <<>>]_vars

\* A load into a name that is registered found no file to map and failed,
\* and the codebase registered before is still there with its mappings open.
C10_Witness ==
    /\ last.op = "load"
    /\ ~last.ok
    /\ last.report = "No files found"
    /\ codebases[last.name] # NoCodebase
    /\ \A m \in MapsOf(codebases[last.name].files) : mmaps[m].open

---------------------------------------------------------------------------
(* Further claims about search and the per-file counts, under SpecSearch. *)

\* C11: search returns an empty list, raises nothing and changes no state
\* whenever the named codebase is not in the registry or the pattern fails
\* to compile, under either case-sensitivity setting and whatever max_results is.
C11_EntryErrorEmpty ==
    [][(/\ Completed("search")
        /\ Idle
        /\ \/ codebases[last'.req.codebase] = NoCodebase
           \/ CompileFails(last'.req.pattern)
           \/ CompileRaises(last'.req.pattern)) =>
          /\ last'.ok
          /\ last'.results = <<>>
          /\ UNCHANGED <<fs, codebases, mmaps, queue, unfinished, running, worker,
                         threads, fg>>]_vars

\* The number of newline bytes in the content.
NewlineCount(content) == Cardinality({i \in 1..Len(content) : content[i] = NL})

\* C16: for every file held by a loaded codebase, the line count recorded
\* in its metadata equals the number of newline bytes in its content plus
\* one, whether or not the content ends with a newline.
C16_LineCount ==
    \A n \in Names : \A i \in 1..Len(codebases[n].stats) :
        codebases[n].stats[i].lines = NewlineCount(ContentAt(codebases[n].stats[i].path)) + 1

\* A codebase is loaded that holds a file ending with a newline and a file
\* that does not end with one.
C16_Witness ==
    \E n \in Names : \E i, j \in 1..Len(codebases[n].stats) :
        LET ci == ContentAt(codebases[n].stats[i].path)
            cj == ContentAt(codebases[n].stats[j].path)
        IN  /\ ci[Len(ci)] = NL
            /\ cj[Len(cj)] # NL
            /\ NewlineCount(cj) >= 1

\* The position of the file in the Codebase's files.
FileIndex(files, path) == CHOOSE i \in 1..Len(files) : files[i].path = path

\* C18: the result list of search is ordered by the codebase's file order
\* and, within one file, by strictly ascending 1-based line number, so no
\* two results share a (file, line) pair; each result's pos is the offset in
\* that line of the leftmost match.
C18_Ordered ==
    Scanned =>
        LET r == last.results
            at(i) == FileIndex(last.files, r[i].file)
        IN  /\ \A i, j \in 1..Len(r) :
                  i < j => \/ at(i) < at(j)
                           \/ at(i) = at(j) /\ r[i].line < r[j].line
            /\ \A i \in 1..Len(r) :
                  LET line == LinesOf(last.files, at(i))[r[i].line]
                  IN  /\ r[i].line >= 1
                      /\ MatchesAt(line, last.req.pattern.lit, ~last.req.case_sensitive, r[i].pos)
                      /\ \A q \in 0..(r[i].pos - 1) :
                            ~MatchesAt(line, last.req.pattern.lit, ~last.req.case_sensitive, q)

\* A search returned results from two files, two of them from one file, and
\* one for a line that has several matches, the leftmost not at offset 0.
C18_Witness ==
    /\ Scanned
    /\ \E i, j \in 1..Len(last.results) : last.results[i].file # last.results[j].file
    /\ \E i, j \in 1..Len(last.results) :
          i # j /\ last.results[i].file = last.results[j].file
    /\ \E i \in 1..Len(last.results) :
          LET line == LinesOf(last.files, FileIndex(last.files, last.results[i].file))
                          [last.results[i].line]
          IN  /\ last.results[i].pos > 0
              /\ \E q \in (last.results[i].pos + 1)..Len(line) :
                    MatchesAt(line, last.req.pattern.lit, ~last.req.case_sensitive, q)

---------------------------------------------------------------------------
(* The queue claims, under Spec. *)

\* The threads that hold a request they dequeued and have not marked done.
Holding == {t \in DOMAIN threads : threads[t].pc \in {"seek", "read", "done"}}

\* C13: the requests submitted through add_search are executed in the order
\* they were enqueued (the execution of a request is over only when that of
\* every request dequeued before it is), and each is executed at most once.
C13_InOrder ==
    /\ \A t \in DOMAIN threads : threads[t].pc = "done" => threads[t].older = {}
    /\ Len(queue) + Cardinality(Holding) <= unfinished

\* C17: every request the worker dequeues is marked done on the queue exactly
\* once, also when its search raises: the unfinished tasks of the queue are
\* the requests still waiting and those a worker is executing, so that
\* queue.join() returns once every request has been dequeued and executed.
C17_MarkedDone == unfinished = Len(queue) + Cardinality(Holding)

---------------------------------------------------------------------------
(* The termination claim, under SpecStop. *)

AllExited == \A t \in DOMAIN threads : ~Alive(t)

\* C14: once stop_worker has cleared self.running, and unless start_worker
\* sets it again, every worker thread eventually exits, also when the queue
\* is empty; it exits without draining the queue: while no worker thread is
\* alive no request leaves the queue.
C14_WorkerExits ==
    /\ (~running) ~> (running \/ AllExited)
    /\ [][AllExited => Len(queue') >= Len(queue)]_vars

\* stop_worker has returned, the thread it stopped has exited and a request
\* is still in the queue.
C14_Witness ==
    /\ last.op = "stop_worker"
    /\ last.report = "Worker stopped"
    /\ ~running
    /\ threads # <<>>
    /\ AllExited
    /\ queue # <<>>

---------------------------------------------------------------------------
(* The per-file failure claim, under SpecReg. *)

\* C19: a failure while loading one file, at whichever step, does not abort
\* load: the failing file is in neither the codebase's mapped buffers nor
\* its metadata, and every other candidate that loads without failure
\* (every non-empty one) is in both.
C19_FailureSkipped ==
    [][(/\ Completed("load")
        /\ IsDir(last'.path)
        /\ \E i \in DOMAIN last'.fails : last'.fails[i].step # "none") =>
          LET unfailed == {last'.fails[i].path : i \in
                             {j \in DOMAIN last'.fails :
                                 /\ last'.fails[j].step = "none"
                                 /\ ContentAt(last'.fails[j].path) # <<>>}}
              cb       == IF last'.ok THEN codebases'[last'.name] ELSE NoCodebase
          IN  /\ FileKeys(cb) = unfailed
              /\ StatKeys(cb) = unfailed]_vars

---------------------------------------------------------------------------
(* The claims about the whole interface, under SpecApi. *)

\* sum(d.values())
RECURSIVE SumValues(_)
SumValues(d) ==
    IF DOMAIN d = {} THEN 0
    ELSE LET k == CHOOSE k \in DOMAIN d : TRUE
         IN  d[k] + SumValues([j \in DOMAIN d \ {k} |-> d[j]])

\* C12: the Stats that stats(name) returns for a loaded codebase are
\* additive: size_by_ext summed over all extensions is the total size, and
\* lines_by_ext summed over all extensions is the total lines.
C12_Additive ==
    (last.op = "stats" /\ last.ret # None) =>
        /\ SumValues(last.ret.size_by_ext) = last.ret.size
        /\ SumValues(last.ret.lines_by_ext) = last.ret.lines

\* stats returned for a codebase with two extensions, one of them shared by
\* two files.
C12_Witness ==
    /\ last.op = "stats"
    /\ last.ret # None
    /\ Cardinality(DOMAIN last.ret.size_by_ext) >= 2
    /\ \E e \in DOMAIN last.ret.types : last.ret.types[e] >= 2
    /\ last.ret.lines > Cardinality(DOMAIN last.ret.lines_by_ext)

\* The non-empty regular files under the root whose extension is not in the
\* binary-exclusion set.
Loadable(path) ==
    {f \in Range(fs[path]) :
        f.isfile /\ Len(f.content) > 0 /\ Lower(f.suffix) \notin BinaryExts}

\* C15: a load with no extension allow-list loads every non-empty regular
\* file under the root whose extension is not in the binary-exclusion set;
\* a load with a non-empty allow-list loads exactly those of them whose
\* extension is in the list (no file failing on the way).
C15_ExtFilter ==
    [][(/\ Completed("load")
        /\ IsDir(last'.path)
        /\ \A i \in DOMAIN last'.fails : last'.fails[i].step = "none") =>
          LET loaded == IF last'.ok THEN FileKeys(codebases'[last'.name]) ELSE {}
              listed == {f \in Loadable(last'.path) : f.suffix \in Range(last'.exts)}
          IN  IF last'.exts \in {NoExts, <<>>}
              THEN loaded = {f.path : f \in Loadable(last'.path)}
              ELSE loaded = {f.path : f \in listed}]_vars

\* The calls that only read the registry.
ReadOnlyOps == {"search", "stats", "file_info", "add_search"}

\* C20: search, stats, file_info and add_search never change the registry
\* or any file's metadata: no step of such a call, from its entry to its
\* return, changes the registered names, a codebase's files or its metadata.
C20_ReadOnly == [][last'.op \in ReadOnlyOps => codebases' = codebases]_vars

\* file_info returned the metadata of a file of a registered codebase whose
\* buffers an earlier search or stats call has read, a request being queued.
C20_Witness ==
    /\ last.op = "file_info"
    /\ last.ret # None
    /\ codebases[last.name] # NoCodebase
    /\ last.ret.file \in StatKeys(codebases[last.name])
    /\ \E m \in MapsOf(codebases[last.name].files) : mmaps[m].pos > 0
    /\ queue # <<>>

=============================================================================
